---- MODULE Spec2Model ----
(***************************************************************************)
(* A model of the Holon Claude adapter (images/adapter-claude).            *)
(*                                                                         *)
(* run_adapter (adapter.py) is modelled as a sequential state machine: pc  *)
(* is the position in the function, the other variables are its locals,    *)
(* the files it reads and writes, the workspace repository and the process *)
(* environment.  Every call that can fail (a git command, a file write, a  *)
(* call of the agent SDK) fails or succeeds nondeterministically.          *)
(*                                                                         *)
(* Three specifications are defined:                                       *)
(*   Spec       a whole run of run_adapter, from process start to exit;    *)
(*   TimedSpec  the agent session with a wall clock that advances while    *)
(*              the adapter awaits the next message of the stream;         *)
(*   PermSpec   the two fix_permissions functions applied to every         *)
(*              combination of HOST_UID / HOST_GID values and arguments.   *)
(***************************************************************************)
EXTENDS Integers, Sequences, FiniteSets, TLC

(***************************************************************************)
(* Bounds of the model.                                                    *)
(***************************************************************************)
\* Messages the agent delivers before the stream ends or the run is cut off.
MaxEvents == 4
\* The wall clock stops advancing after this many ticks.
MaxTicks == 5
MaxBaselineRuns == 2
\* Seconds per clock tick: shorter than the idle window, so that a stream
\* that delivers a message after every tick never idles a full window.
TickSeconds == 1500

(***************************************************************************)
(* Program constants.                                                      *)
(***************************************************************************)
\* config.py: HolonConfig.get_env_timeout_seconds, default
QueryTimeoutDefault == 300
\* config.py: HolonConfig.get_env_heartbeat_seconds, default
HeartbeatDefault == 60
\* config.py: HolonConfig.get_env_idle_timeout_seconds, default
IdleTimeoutDefault == 1800
\* config.py: HolonConfig.get_env_total_timeout_seconds, default
TotalTimeoutDefault == 7200

(***************************************************************************)
(* Environment variables and Python's int().                               *)
(* A string is a sequence of one-character strings, so that parsing is     *)
(* computed and not assumed.  An environment variable is a record: `set`   *)
(* is FALSE when os.environ.get returns None.                              *)
(***************************************************************************)
Unset == [set |-> FALSE, val |-> <<>>]
EnvStr(s) == [set |-> TRUE, val |-> s]

Digits == {"0", "1", "2", "3", "4", "5", "6", "7", "8", "9"}

DigitVal(c) ==
    CASE c = "0" -> 0 [] c = "1" -> 1 [] c = "2" -> 2 [] c = "3" -> 3
      [] c = "4" -> 4 [] c = "5" -> 5 [] c = "6" -> 6 [] c = "7" -> 7
      [] c = "8" -> 8 [] c = "9" -> 9

RECURSIVE StripLeft(_)
StripLeft(s) ==
    IF s # <<>> /\ Head(s) = " " THEN StripLeft(Tail(s)) ELSE s

RECURSIVE StripRight(_)
StripRight(s) ==
    IF s # <<>> /\ s[Len(s)] = " "
    THEN StripRight(SubSeq(s, 1, Len(s) - 1))
    ELSE s

RECURSIVE DigitsValue(_, _)
DigitsValue(s, acc) ==
    IF s = <<>> THEN acc ELSE DigitsValue(Tail(s), 10 * acc + DigitVal(Head(s)))

\* The digits of a literal, its grouping underscores left out.
RECURSIVE DropUnderscores(_)
DropUnderscores(s) ==
    IF s = <<>> THEN <<>>
    ELSE IF Head(s) = "_" THEN DropUnderscores(Tail(s))
    ELSE <<Head(s)>> \o DropUnderscores(Tail(s))

\* int(s) of Python for a decimal literal: surrounding blanks are stripped,
\* one sign is allowed, at least one digit must follow, single underscores
\* may stand between digits, and nothing else.  ok = FALSE stands for
\* ValueError.
PyInt(s) ==
    LET t == StripRight(StripLeft(s))
        signed == t # <<>> /\ Head(t) \in {"-", "+"}
        body == IF signed THEN Tail(t) ELSE t
        good == /\ body # <<>>
                /\ \A i \in 1..Len(body) : body[i] \in Digits \cup {"_"}
                /\ body[1] # "_" /\ body[Len(body)] # "_"
                /\ \A i \in 1..(Len(body) - 1) :
                      ~(body[i] = "_" /\ body[i + 1] = "_")
        mag == IF good THEN DigitsValue(DropUnderscores(body), 0) ELSE 0
    IN  [ok |-> good,
         n |-> IF signed /\ Head(t) = "-" THEN 0 - mag ELSE mag]

\* Truthiness of os.environ.get(name): None and "" are falsy.
Truthy(e) == e.set /\ e.val # <<>>

\* Values given to HOST_UID and HOST_GID: absent, empty, integers (plain,
\* padded, signed) and non-integers.
EnvValues ==
    {Unset, EnvStr(<<>>), EnvStr(<<"7">>), EnvStr(<<"1", "0">>),
     EnvStr(<<" ", "7">>), EnvStr(<<"-", "1">>), EnvStr(<<"a">>),
     EnvStr(<<"7", "a">>)}

\* Values given to the integer settings: those of EnvValues and further
\* spellings that int() accepts or rejects.
IntEnvValues ==
    EnvValues \cup
    {EnvStr(<<"7", " ">>), EnvStr(<<"+", "5">>), EnvStr(<<"0">>),
     EnvStr(<<"0", "0", "7">>), EnvStr(<<"3", "0", "0">>),
     EnvStr(<<"1", "_", "0">>), EnvStr(<<"_", "1">>),
     EnvStr(<<"1", "_", "_", "0">>), EnvStr(<<"-">>), EnvStr(<<" ">>),
     EnvStr(<<"1", ".", "5">>), EnvStr(<<"1", "e", "3">>),
     EnvStr(<<"-", "-", "1">>), EnvStr(<<"1", " ", "0">>)}

(***************************************************************************)
(* State.                                                                  *)
(***************************************************************************)
VARIABLES
    pc,             \* position in run_adapter
    exitCode,       \* process exit status, -1 while the process runs
    inputs,         \* the input files that exist under /holon/input
    HOST_UID,       \* os.environ["HOST_UID"]
    HOST_GID,       \* os.environ["HOST_GID"]
    cwd,            \* current working directory: "start" or "workspace"
    outDirs,        \* directories created under /holon/output
    gitDir,         \* /holon/workspace/.git exists
    commits,        \* number of commits of the workspace repository
    gitignore,      \* number of times the ignore patterns were appended
    staged,         \* the index holds the workspace changes (git add -A ran)
    dirty,          \* the agent changed files of the workspace
    gitRan,         \* the git commands run so far, in order
    client,         \* ClaudeSDKClient: "new", "connected", "queried"
    execution_log,  \* evidence/execution.log
    final_output,   \* local final_output
    result,         \* local result
    success,        \* local success
    terminal,       \* how the stream ended: "none", "result_ok", "result_error",
                    \* "exhausted", "raised"
    now,            \* wall clock, seconds since process start
    start_time,     \* local start_time
    idle,           \* seconds since the adapter last heard from the agent
    idled,          \* some wait for a message lasted a full idle window
    duration,       \* local duration
    patch_content,  \* local patch_content
    summary_text,   \* local summary_text
    manifest_json,  \* /holon/output/manifest.json
    diff_patch,     \* /holon/output/diff.patch
    summary_md,     \* /holon/output/summary.md
    summary_before, \* summary.md as artifact generation found it
    manifestWrites, \* number of completed writes of manifest.json
    error,          \* str(e) of the exception caught at the failure boundary
    permCalls,      \* number of calls of fix_permissions(output_dir)
    chowned,        \* entries re-owned by fix_permissions, in order
    wroteAfterPerm, \* an output file was written after fix_permissions
    written,        \* the files under /holon/output this run has written
    pf,             \* PermSpec: the last call of a fix_permissions function
    runs,           \* adapter runs started on this workspace so far
    gitFailed,      \* the git commands that exited non-zero
    arrived,        \* the messages the agent has delivered, in order
    cfgCall         \* ConfigSpec: the last call of HolonConfig._int_env

envVars == <<inputs, HOST_UID, HOST_GID, runs>>
procVars == <<cwd, outDirs>>
gitVars == <<gitDir, commits, gitignore, staged, dirty, gitRan, gitFailed>>
sessVars ==
    <<client, execution_log, final_output, result, success, terminal, arrived>>
clockVars == <<now, start_time, idle, idled>>
artVars == <<duration, patch_content, summary_text, diff_patch, summary_md,
             summary_before>>
manVars == <<manifest_json, manifestWrites>>
permVars == <<permCalls, chowned, wroteAfterPerm, written>>

vars ==
    <<pc, exitCode, error, envVars, procVars, gitVars, sessVars, clockVars,
      artVars, manVars, permVars, pf, cfgCall>>

(***************************************************************************)
(* Files and messages.                                                     *)
(***************************************************************************)
InputFiles == {"spec.yaml", "prompts/system.md", "prompts/user.md"}

NoFile == [exists |-> FALSE, content |-> ""]
File(c) == [exists |-> TRUE, content |-> c]

NoLog == [exists |-> FALSE, lines |-> <<>>]

\* The text of a summary: the one the agent wrote, `raw` holding its
\* characters, or the one synthesized from the goal, the outcome and the
\* accumulated output.
NoText == [by |-> "", goal |-> "", outcome |-> "", actions |-> "", raw |-> <<>>]
AgentText(raw) ==
    [by |-> "agent", goal |-> "", outcome |-> "", actions |-> "", raw |-> raw]
NoSummary == [exists |-> FALSE, text |-> NoText]

\* What the agent may have written into summary.md: lines ended by "\n",
\* or by "\r\n".
AgentSummaries ==
    {<<"s", "\n", "t", "\n">>, <<"s", "\r", "\n", "t", "\r", "\n">>}

RECURSIVE ReadText(_)
\* 238-239: open(path, 'r').read().  Text mode reads with universal
\* newlines: "\r\n" and a lone "\r" both come back as "\n".
ReadText(raw) ==
    IF raw = <<>> THEN <<>>
    ELSE IF Head(raw) = "\r"
         THEN <<"\n">> \o ReadText(IF Len(raw) > 1 /\ raw[2] = "\n"
                                   THEN Tail(Tail(raw)) ELSE Tail(raw))
         ELSE <<Head(raw)>> \o ReadText(Tail(raw))

\* os.linesep of the container the adapter runs in.
linesep == <<"\n">>

RECURSIVE WriteText(_)
\* 246-247: open(path, 'w').write(text).  Text mode writes each "\n" as
\* os.linesep.
WriteText(text) ==
    IF text = <<>> THEN <<>>
    ELSE (IF Head(text) = "\n" THEN linesep ELSE <<Head(text)>>)
         \o WriteText(Tail(text))

\* A manifest is the set of its keys and the values of those the claims read.
NoManifest ==
    [keys |-> {}, status |-> "", outcome |-> "", error |-> "",
     duration |-> 0, artifacts |-> <<>>]

\* adapter.py 219-223
ArtifactList == <<"diff.patch", "summary.md", "evidence/">>

TextBlock(t) == [type |-> "TextBlock", text |-> t]
ToolUseBlock == [type |-> "ToolUseBlock", text |-> ""]

AssistantMessage(blocks) ==
    [type |-> "AssistantMessage", content |-> blocks, is_error |-> FALSE]
SystemMessage ==
    [type |-> "SystemMessage", content |-> <<>>, is_error |-> FALSE]
ResultMessage(err) ==
    [type |-> "ResultMessage", content |-> <<>>, is_error |-> err]

\* The messages the agent can deliver.
Messages ==
    {AssistantMessage(<<TextBlock("a")>>),
     AssistantMessage(<<ToolUseBlock, TextBlock("b")>>),
     SystemMessage,
     ResultMessage(FALSE),
     ResultMessage(TRUE)}

\* The task goal read from spec.yaml (adapter.py 59-63).
goal == "Add a README"

(***************************************************************************)
(* Initial states: the process has just started.  The input files, the     *)
(* workspace repository and the host identity are the environment's.       *)
(***************************************************************************)
\* The workspace is no repository, a repository without commits (git init
\* only), or a repository with history.
WorkspaceStates ==
    {[gitDir |-> FALSE, commits |-> 0],
     [gitDir |-> TRUE, commits |-> 0],
     [gitDir |-> TRUE, commits |-> 1]}

\* HOST_UID / HOST_GID of a run: not configured, or configured.  PermSpec
\* covers every combination of values.
HostIdentities ==
    {<<Unset, Unset>>,
     <<EnvStr(<<"7">>), EnvStr(<<"7">>)>>}

NoCall == [fn |-> "none", uid |-> Unset, gid |-> Unset, failAt |-> 0,
           chowned |-> <<>>, raised |-> FALSE]

\* The result of _int_env: an integer, or None (a default of None).
NoneValue == [none |-> TRUE, n |-> 0]
IntValue(n) == [none |-> FALSE, n |-> n]

NoIntEnvCall ==
    [name |-> "", value |-> Unset, raised |-> FALSE, result |-> NoneValue]

\* config.py 117-139: the getters of the integer settings, each with the
\* default it passes to _int_env.
IntSettings ==
    {[name |-> "HOLON_QUERY_TIMEOUT_SECONDS",
      default |-> IntValue(QueryTimeoutDefault)],
     [name |-> "HOLON_HEARTBEAT_SECONDS",
      default |-> IntValue(HeartbeatDefault)],
     [name |-> "HOLON_RESPONSE_IDLE_TIMEOUT_SECONDS",
      default |-> IntValue(IdleTimeoutDefault)],
     [name |-> "HOLON_RESPONSE_TOTAL_TIMEOUT_SECONDS",
      default |-> IntValue(TotalTimeoutDefault)],
     [name |-> "HOST_UID", default |-> NoneValue],
     [name |-> "HOST_GID", default |-> NoneValue]}

\* _int_env as it would be without the except clause: ValueError escapes.
int_env_unguarded(value, default) ==
    IF ~value.set \/ value.val = <<>>
    THEN [raised |-> FALSE, result |-> default]
    ELSE LET parsed == PyInt(value.val)
         IN  IF parsed.ok
             THEN [raised |-> FALSE, result |-> IntValue(parsed.n)]
             ELSE [raised |-> TRUE, result |-> NoneValue]

\* config.py 141-149: HolonConfig._int_env.  `value` is
\* os.environ.get(name); None and "" give the default; otherwise int(value)
\* inside try, and the default on ValueError.
int_env(value, default) ==
    IF ~value.set \/ value.val = <<>>
    THEN [raised |-> FALSE, result |-> default]
    ELSE LET parsed == PyInt(value.val)
         IN  IF parsed.ok
             THEN [raised |-> FALSE, result |-> IntValue(parsed.n)]
             ELSE [raised |-> FALSE, result |-> default]

Locals ==
    /\ client = "new"
    /\ execution_log = NoLog
    /\ final_output = ""
    /\ result = ""
    /\ success = TRUE
    /\ terminal = "none"
    /\ now = 0
    /\ start_time = 0
    /\ idle = 0
    /\ idled = FALSE
    /\ duration = 0
    /\ patch_content = ""
    /\ summary_text = NoText
    /\ manifest_json = NoManifest
    /\ diff_patch = NoFile
    /\ summary_md = NoSummary
    /\ summary_before = NoSummary
    /\ manifestWrites = 0
    /\ error = ""
    /\ permCalls = 0
    /\ chowned = <<>>
    /\ wroteAfterPerm = FALSE
    /\ written = {}
    /\ staged = FALSE
    /\ dirty = FALSE
    /\ gitignore = 0
    /\ gitFailed = {}
    /\ arrived = <<>>
    /\ runs = 1
    /\ cfgCall = NoIntEnvCall

Init ==
    /\ pc = "start"
    /\ exitCode = -1
    /\ inputs \in SUBSET InputFiles
    /\ \E h \in HostIdentities : HOST_UID = h[1] /\ HOST_GID = h[2]
    /\ cwd = "start"
    /\ outDirs = {}
    /\ \E w \in WorkspaceStates : gitDir = w.gitDir /\ commits = w.commits
    /\ gitRan = <<>>
    /\ Locals
    /\ pf = NoCall

(***************************************************************************)
(* Leaving run_adapter.                                                    *)
(***************************************************************************)
\* sys.exit(code), or an exception that no handler catches: the interpreter
\* exits with status 1.
Exit(code) == pc' = "exit" /\ exitCode' = code

\* An exception raised inside the try block of run_adapter (163-251).
Raise(e) == pc' = "except" /\ error' = e /\ exitCode' = exitCode

Goto(l) == pc' = l /\ exitCode' = exitCode /\ error' = error

(***************************************************************************)
(* run_adapter, 43-113: output directories, input files, git baseline.     *)
(***************************************************************************)
\* 43-47
MakeOutputDirs ==
    /\ pc = "start"
    /\ outDirs' = {"output", "output/evidence"}
    /\ Goto("load_spec")
    /\ UNCHANGED <<envVars, cwd, gitVars, sessVars, clockVars, artVars,
                   manVars, permVars, pf, cfgCall>>

\* 49-65: the spec is missing: sys.exit(1); else it is loaded.
LoadSpec ==
    /\ pc = "load_spec"
    /\ IF "spec.yaml" \in inputs
       THEN Goto("load_system")
       ELSE Exit(1) /\ error' = error
    /\ UNCHANGED <<envVars, procVars, gitVars, sessVars, clockVars, artVars,
                   manVars, permVars, pf, cfgCall>>

\* 71-79
LoadSystemPrompt ==
    /\ pc = "load_system"
    /\ IF "prompts/system.md" \in inputs
       THEN Goto("load_user")
       ELSE Exit(1) /\ error' = error
    /\ UNCHANGED <<envVars, procVars, gitVars, sessVars, clockVars, artVars,
                   manVars, permVars, pf, cfgCall>>

\* The user prompt load as it would be without the existence check.
LoadUserPromptUnchecked ==
    /\ pc = "load_user"
    /\ Goto("chdir")
    /\ UNCHANGED <<envVars, procVars, gitVars, sessVars, clockVars, artVars,
                   manVars, permVars, pf, cfgCall>>

\* 81-89
LoadUserPrompt ==
    /\ pc = "load_user"
    /\ IF "prompts/user.md" \in inputs
       THEN Goto("chdir")
       ELSE Exit(1) /\ error' = error
    /\ UNCHANGED <<envVars, procVars, gitVars, sessVars, clockVars, artVars,
                   manVars, permVars, pf, cfgCall>>

\* 91-101: chdir into the workspace, then the three git config commands,
\* run with check=False: their exit status is not looked at.
GitConfig ==
    /\ pc = "chdir"
    /\ cwd' = "workspace"
    /\ gitRan' = Append(gitRan, "config")
    /\ \E ok \in BOOLEAN :
         gitFailed' = (IF ok THEN gitFailed ELSE gitFailed \cup {"config"})
    /\ Goto("has_git")
    /\ UNCHANGED <<envVars, outDirs, gitDir, commits, gitignore, staged, dirty,
                   sessVars, clockVars, artVars, manVars, permVars, pf, cfgCall>>

\* 103-104, 112-113.  The settings sync that follows (115-141) rewrites
\* ~/.claude/settings.json inside its own try / except and touches nothing
\* the model holds; CheckGit leads straight to the session.
\* The check as it would be if the metadata directory were never found.
has_git_never == FALSE

has_git == gitDir

CheckGit ==
    /\ pc = "has_git"
    /\ IF has_git THEN Goto("connect") ELSE Goto("git_init")
    /\ UNCHANGED <<envVars, procVars, gitVars, sessVars, clockVars, artVars,
                   manVars, permVars, pf, cfgCall>>

\* subprocess.run as it would be without check=True: a non-zero exit is
\* not looked at.
IgnoresExitStatus(ok) == FALSE

\* 106, 110, 111: subprocess.run(..., check=True) raises CalledProcessError
\* when the command exits non-zero.
CheckRaises(ok) == ~ok

\* 106: git init with check=True.  A non-zero exit raises CalledProcessError
\* outside the try block: nothing catches it.
GitInit ==
    /\ pc = "git_init"
    /\ gitRan' = Append(gitRan, "init")
    /\ \E ok \in BOOLEAN :
         /\ gitDir' = (gitDir \/ ok)
         /\ gitFailed' = (IF ok THEN gitFailed ELSE gitFailed \cup {"init"})
         /\ IF CheckRaises(ok)
            THEN Exit(1) /\ error' = error
            ELSE Goto("gitignore")
    /\ UNCHANGED <<envVars, procVars, commits, gitignore, staged, dirty,
                   sessVars, clockVars, artVars, manVars, permVars, pf, cfgCall>>

\* 108-110: the ignore patterns are appended, then git add -A, check=True.
BaselineAdd ==
    /\ pc = "gitignore"
    /\ gitignore' = gitignore + 1
    /\ gitRan' = Append(gitRan, "add (baseline)")
    /\ \E ok \in BOOLEAN :
         /\ gitFailed' = (IF ok THEN gitFailed ELSE gitFailed \cup {"add (baseline)"})
         /\ IF CheckRaises(ok)
            THEN Exit(1) /\ error' = error
            ELSE Goto("git_commit")
    /\ UNCHANGED <<envVars, procVars, gitDir, commits, staged, dirty,
                   sessVars, clockVars, artVars, manVars, permVars, pf, cfgCall>>

\* 111: git commit -m holon-baseline, check=True.
BaselineCommit ==
    /\ pc = "git_commit"
    /\ gitRan' = Append(gitRan, "commit")
    /\ \E ok \in BOOLEAN :
         /\ commits' = (IF ok THEN commits + 1 ELSE commits)
         /\ gitFailed' = (IF ok THEN gitFailed ELSE gitFailed \cup {"commit"})
         /\ IF CheckRaises(ok)
            THEN Exit(1) /\ error' = error
            ELSE Goto("connect")
    /\ UNCHANGED <<envVars, procVars, gitDir, gitignore, staged, dirty,
                   sessVars, clockVars, artVars, manVars, permVars, pf, cfgCall>>

(***************************************************************************)
(* fix_permissions: adapter.py 12-38 and fs_helpers.py 79-112.             *)
(***************************************************************************)
\* The entries os.chown is called on, in the order of the code: the directory
\* itself, then for each directory of os.walk its sub-directories and its
\* files.
Tree(dirs, man, diff, summ, log) ==
    (IF "output" \in dirs THEN <<"output">> ELSE <<>>)
    \o (IF "output/evidence" \in dirs THEN <<"output/evidence">> ELSE <<>>)
    \o (IF man.keys # {} THEN <<"output/manifest.json">> ELSE <<>>)
    \o (IF diff.exists THEN <<"output/diff.patch">> ELSE <<>>)
    \o (IF summ.exists THEN <<"output/summary.md">> ELSE <<>>)
    \o (IF log.exists THEN <<"output/evidence/execution.log">> ELSE <<>>)

OutputTree == Tree(outDirs, manifest_json, diff_patch, summary_md, execution_log)

\* The chown calls that succeed when the call on entry failAt raises (none
\* raises when failAt = 0): the exception leaves both loops.
ChownUntil(tree, failAt) ==
    IF failAt \in 1..Len(tree) THEN SubSeq(tree, 1, failAt - 1) ELSE tree

\* adapter.fix_permissions(directory), 12-38.  int() is inside the try block.
fix_permissions(uid_str, gid_str, tree, failAt) ==
    IF ~Truthy(uid_str) \/ ~Truthy(gid_str)
    THEN [chowned |-> <<>>, raised |-> FALSE]
    ELSE IF ~PyInt(uid_str.val).ok \/ ~PyInt(gid_str.val).ok
         THEN [chowned |-> <<>>, raised |-> FALSE]
         ELSE [chowned |-> ChownUntil(tree, failAt), raised |-> FALSE]

\* PermissionFixer.fix_permissions(directory, uid, gid), fs_helpers.py 79-112.
\* An argument that is None is read from the environment, and int() is
\* called on it before the try block.  uid_arg and gid_arg are environment
\* records too: Unset stands for None, a set one holds the integer's digits.
PermissionFixer_fix_permissions(uid_arg, gid_arg, uid_str, gid_str, tree, failAt) ==
    LET uidRaises == ~uid_arg.set /\ Truthy(uid_str) /\ ~PyInt(uid_str.val).ok
        gidRaises == ~gid_arg.set /\ Truthy(gid_str) /\ ~PyInt(gid_str.val).ok
        uidNone == ~uid_arg.set /\ ~Truthy(uid_str)
        gidNone == ~gid_arg.set /\ ~Truthy(gid_str)
    IN  IF uidRaises \/ gidRaises
        THEN [chowned |-> <<>>, raised |-> TRUE]
        ELSE IF uidNone \/ gidNone
             THEN [chowned |-> <<>>, raised |-> FALSE]
             ELSE [chowned |-> ChownUntil(tree, failAt), raised |-> FALSE]

\* Where os.chown raises during a run: nowhere, on the output directory
\* itself, or on the last entry of the tree.  PermSpec covers every entry.
FailPoints(tree) == {0, 1, Len(tree)}

\* run_adapter's call fix_permissions(output_dir), 250 and 262.
CallFixPermissions ==
    /\ \E failAt \in FailPoints(OutputTree) :
         chowned' = fix_permissions(HOST_UID, HOST_GID, OutputTree, failAt).chowned
    /\ permCalls' = permCalls + 1
    /\ UNCHANGED <<wroteAfterPerm, written>>

\* A write of file f under /holon/output.
NoteWrite(f) ==
    /\ written' = written \cup {f}
    /\ wroteAfterPerm' = (wroteAfterPerm \/ permCalls > 0)

(***************************************************************************)
(* run_adapter, 156-190: the agent session.                                *)
(***************************************************************************)
\* 158-165: start_time, success, result, then client.connect().
Connect ==
    /\ pc = "connect"
    /\ start_time' = now
    /\ success' = TRUE
    /\ result' = ""
    /\ \E ok \in BOOLEAN :
         IF ok
         THEN client' = "connected" /\ Goto("open_log")
         ELSE client' = client /\ Raise("connect failed")
    /\ UNCHANGED <<envVars, procVars, gitVars, execution_log, final_output,
                   terminal, arrived, now, idle, idled, artVars, manVars,
                   permVars, pf, cfgCall>>

\* 169: open(log_file_path, 'w').
OpenLog ==
    /\ pc = "open_log"
    /\ \E ok \in BOOLEAN :
         IF ok
         THEN /\ execution_log' = [exists |-> TRUE, lines |-> <<>>]
              /\ NoteWrite("evidence/execution.log")
              /\ Goto("query")
         ELSE /\ execution_log' = execution_log
              /\ UNCHANGED <<wroteAfterPerm, written>>
              /\ Raise("cannot open execution.log")
    /\ UNCHANGED <<envVars, procVars, gitVars, client, final_output, result,
                   success, terminal, arrived, clockVars, artVars, manVars,
                   permCalls, chowned, pf, cfgCall>>

\* 171-173: client.query(user_msg), final_output = "".
Query ==
    /\ pc = "query"
    /\ final_output' = ""
    /\ \E ok \in BOOLEAN :
         IF ok
         THEN client' = "queried" /\ idle' = 0 /\ Goto("recv")
         ELSE client' = client /\ idle' = idle /\ Raise("query failed")
    /\ UNCHANGED <<envVars, procVars, gitVars, execution_log, result, success,
                   terminal, arrived, now, start_time, idled, artVars, manVars,
                   permVars, pf, cfgCall>>

RECURSIVE BlocksTextUntilTool(_)
\* The loop over the blocks as it would be if it stopped at the first block
\* that is not a TextBlock.
BlocksTextUntilTool(blocks) ==
    IF blocks = <<>> \/ Head(blocks).type # "TextBlock" THEN ""
    ELSE Head(blocks).text \o BlocksTextUntilTool(Tail(blocks))

RECURSIVE BlocksText(_)
\* 178-180: the text of the TextBlocks of a message, in order.
BlocksText(blocks) ==
    IF blocks = <<>> THEN ""
    ELSE (IF Head(blocks).type = "TextBlock" THEN Head(blocks).text ELSE "")
         \o BlocksText(Tail(blocks))

UsesTool(msg) == \E i \in 1..Len(msg.content) : msg.content[i].type = "ToolUseBlock"

\* The log line as it would be if it did not hold the message.
LogLineNoMessage(tag, msg, text) ==
    [tag |-> tag, msg |-> SystemMessage, text |-> text]

\* 175, 188: a line of the log: "Message: {msg}" or the final output.
LogLine(tag, msg, text) == [tag |-> tag, msg |-> msg, text |-> text]

\* 181-185: a ResultMessage clears success when is_error is set.
SuccessAfter(s, msg) == IF msg.is_error THEN FALSE ELSE s

\* 174-185: one iteration of the loop over client.receive_response().  The
\* agent works in the workspace: a message with a tool use has changed it.
Receive(msg) ==
    /\ pc = "recv"
    /\ Len(execution_log.lines) < MaxEvents
    /\ execution_log' =
         [execution_log EXCEPT !.lines = Append(@, LogLine("Message", msg, ""))]
    /\ NoteWrite("evidence/execution.log")
    /\ arrived' = Append(arrived, msg)
    /\ idle' = 0
    /\ dirty' = (dirty \/ UsesTool(msg))
    /\ IF msg.type = "AssistantMessage"
       THEN /\ final_output' = final_output \o BlocksText(msg.content)
            /\ UNCHANGED <<success, terminal>>
            /\ Goto("recv")
       ELSE IF msg.type = "ResultMessage"
            THEN /\ success' = SuccessAfter(success, msg)
                 /\ terminal' = (IF msg.is_error THEN "result_error" ELSE "result_ok")
                 /\ final_output' = final_output
                 /\ Goto("finish")
            ELSE /\ UNCHANGED <<final_output, success, terminal>>
                 /\ Goto("recv")
    /\ UNCHANGED <<envVars, procVars, gitDir, commits, gitignore, staged,
                   gitRan, gitFailed, client, result, now, start_time, idled,
                   artVars, manVars, permCalls, chowned, pf, cfgCall>>

\* 174: the stream ends without a ResultMessage: the loop ends.
StreamEnd ==
    /\ pc = "recv"
    /\ terminal' = "exhausted"
    /\ Goto("finish")
    /\ UNCHANGED <<envVars, procVars, gitVars, client, execution_log,
                   final_output, result, success, arrived, clockVars, artVars,
                   manVars, permVars, pf, cfgCall>>

\* 174: receive_response() raises.
StreamRaise ==
    /\ pc = "recv"
    /\ terminal' = "raised"
    /\ Raise("stream failed")
    /\ UNCHANGED <<envVars, procVars, gitVars, client, execution_log,
                   final_output, result, success, arrived, clockVars, artVars,
                   manVars, permVars, pf, cfgCall>>

\* 187-194: result, the last line of the log, end_time and duration.
FinishStream ==
    /\ pc = "finish"
    /\ result' = final_output
    /\ execution_log' =
         [execution_log EXCEPT
            !.lines = Append(@, LogLine("FINAL OUTPUT", SystemMessage, final_output))]
    /\ NoteWrite("evidence/execution.log")
    /\ duration' = now - start_time
    /\ Goto("git_add")
    /\ UNCHANGED <<envVars, procVars, gitVars, client, final_output, success,
                   terminal, arrived, clockVars, patch_content, summary_text,
                   diff_patch, summary_md, summary_before, manVars, permCalls,
                   chowned, pf, cfgCall>>

\* The wall clock advances while the adapter awaits the next message.
Tick ==
    /\ pc = "recv"
    /\ now < MaxTicks * TickSeconds
    /\ now' = now + TickSeconds
    /\ idle' = idle + TickSeconds
    /\ idled' = (idled \/ idle' >= IdleTimeoutDefault)
    /\ UNCHANGED <<pc, exitCode, error, envVars, procVars, gitVars, sessVars,
                   start_time, artVars, manVars, permVars, pf, cfgCall>>

(***************************************************************************)
(* run_adapter, 192-250: the artifacts.                                    *)
(***************************************************************************)
\* The outcomes of subprocess.run without check=True: exit status zero,
\* exit status non-zero (not looked at), or the call itself raises.
RunOutcomes == {"ok", "nonzero", "raise"}

\* 198: git add -A.
StageChanges ==
    /\ pc = "git_add"
    /\ gitRan' = Append(gitRan, "add (staging)")
    /\ \E out \in RunOutcomes :
         /\ staged' = (staged \/ out = "ok")
         /\ gitFailed' = (IF out = "nonzero"
                          THEN gitFailed \cup {"add (staging)"} ELSE gitFailed)
         /\ IF out = "raise" THEN Raise("git add failed") ELSE Goto("git_diff")
    /\ UNCHANGED <<envVars, procVars, gitDir, commits, gitignore, dirty,
                   sessVars, clockVars, artVars, manVars, permVars, pf, cfgCall>>

\* 201-206: the standard output of git diff --cached --binary --full-index:
\* the staged changes, or nothing when the command fails.
DiffStdout(out) == IF out = "ok" /\ staged /\ dirty THEN "diff" ELSE ""

GenerateDiff ==
    /\ pc = "git_diff"
    /\ gitRan' = Append(gitRan, "diff")
    /\ \E out \in RunOutcomes :
         /\ patch_content' = (IF out = "raise" THEN patch_content ELSE DiffStdout(out))
         /\ gitFailed' = (IF out = "nonzero"
                          THEN gitFailed \cup {"diff"} ELSE gitFailed)
         /\ IF out = "raise" THEN Raise("git diff failed") ELSE Goto("write_manifest")
    /\ UNCHANGED <<envVars, procVars, gitDir, commits, gitignore, staged,
                   dirty, sessVars, clockVars, duration, summary_text,
                   diff_patch, summary_md, summary_before, manVars, permVars,
                   pf, cfgCall>>

\* 217
ManifestOutcome(s) == IF s THEN "success" ELSE "failure"

\* 211-224
SuccessPathManifest ==
    [keys |-> {"metadata", "status", "outcome", "duration", "artifacts"},
     status |-> "completed",
     outcome |-> ManifestOutcome(success),
     error |-> "",
     duration |-> duration,
     artifacts |-> ArtifactList]

\* 255-259
FailureManifest(e) ==
    [keys |-> {"status", "outcome", "error"},
     status |-> "completed",
     outcome |-> "failure",
     error |-> e,
     duration |-> 0,
     artifacts |-> <<>>]

\* 227-228
WriteManifest ==
    /\ pc = "write_manifest"
    /\ \E ok \in BOOLEAN :
         IF ok
         THEN /\ manifest_json' = SuccessPathManifest
              /\ manifestWrites' = manifestWrites + 1
              /\ NoteWrite("manifest.json")
              /\ Goto("write_diff")
         ELSE /\ UNCHANGED <<manVars, wroteAfterPerm, written>>
              /\ Raise("cannot write manifest.json")
    /\ UNCHANGED <<envVars, procVars, gitVars, sessVars, clockVars, artVars,
                   permCalls, chowned, pf, cfgCall>>

\* 230-231
WriteDiff ==
    /\ pc = "write_diff"
    /\ \E ok \in BOOLEAN :
         IF ok
         THEN /\ diff_patch' = File(patch_content)
              /\ NoteWrite("diff.patch")
              /\ Goto("summary")
         ELSE /\ UNCHANGED <<diff_patch, wroteAfterPerm, written>>
              /\ Raise("cannot write diff.patch")
    /\ UNCHANGED <<envVars, procVars, gitVars, sessVars, clockVars, duration,
                   patch_content, summary_text, summary_md, summary_before,
                   manVars, permCalls, chowned, pf, cfgCall>>

\* 243-244
SynthesizedText ==
    [by |-> "adapter",
     goal |-> goal,
     outcome |-> IF success THEN "Success" ELSE "Failure",
     actions |-> result,
     raw |-> <<>>]

\* 233-244: the agent may have written summary.md into the output directory
\* during the session; it is read back, else the text is synthesized.
ResolveSummary ==
    /\ pc = "summary"
    /\ \E agentWrote \in BOOLEAN :
         IF agentWrote
         THEN \E raw \in AgentSummaries :
              /\ summary_md' = [exists |-> TRUE, text |-> AgentText(raw)]
              /\ summary_before' = summary_md'
              /\ \E ok \in BOOLEAN :
                   IF ok
                   THEN /\ summary_text' = AgentText(ReadText(raw))
                        /\ Goto("write_summary")
                   ELSE /\ summary_text' = summary_text
                        /\ Raise("cannot read summary.md")
         ELSE /\ summary_md' = summary_md
              /\ summary_before' = summary_md
              /\ summary_text' = SynthesizedText
              /\ Goto("write_summary")
    /\ UNCHANGED <<envVars, procVars, gitVars, sessVars, clockVars, duration,
                   patch_content, diff_patch, manVars, permVars, pf, cfgCall>>

\* 246-247
WriteSummary ==
    /\ pc = "write_summary"
    /\ \E ok \in BOOLEAN :
         IF ok
         THEN /\ summary_md' =
                   [exists |-> TRUE,
                    text |-> [summary_text EXCEPT !.raw = WriteText(@)]]
              /\ NoteWrite("summary.md")
              /\ Goto("fix_permissions")
         ELSE /\ UNCHANGED <<summary_md, wroteAfterPerm, written>>
              /\ Raise("cannot write summary.md")
    /\ UNCHANGED <<envVars, procVars, gitVars, sessVars, clockVars, duration,
                   patch_content, summary_text, diff_patch, summary_before,
                   manVars, permCalls, chowned, pf, cfgCall>>

\* ReturnStatus as it would be if the exit status followed the agent's
\* verdict: an agent-reported failure exits non-zero.
ReturnStatusFromSuccess(s) == IF s THEN 0 ELSE 1

\* The status the process exits with when run_adapter returns (250, 265-266):
\* asyncio.run returns and the interpreter exits normally, whatever success is.
ReturnStatus(s) == 0

\* 249-250: fix_permissions(output_dir), then run_adapter returns.
FinishRun ==
    /\ pc = "fix_permissions"
    /\ CallFixPermissions
    /\ Exit(ReturnStatus(success))
    /\ error' = error
    /\ UNCHANGED <<envVars, procVars, gitVars, sessVars, clockVars, artVars,
                   manVars, pf, cfgCall>>

(***************************************************************************)
(* run_adapter, 252-263: the failure boundary.                             *)
(***************************************************************************)
\* 252-261: the failure manifest is written.  If that write raises, the
\* exception leaves run_adapter and the interpreter exits with status 1.
HandleFailure ==
    /\ pc = "except"
    /\ \E ok \in BOOLEAN :
         IF ok
         THEN /\ manifest_json' = FailureManifest(error)
              /\ manifestWrites' = manifestWrites + 1
              /\ NoteWrite("manifest.json")
              /\ Goto("except_fix_permissions")
         ELSE /\ UNCHANGED <<manVars, wroteAfterPerm, written>>
              /\ Exit(1)
              /\ error' = error
    /\ UNCHANGED <<envVars, procVars, gitVars, sessVars, clockVars, artVars,
                   permCalls, chowned, pf, cfgCall>>

\* 262-263: fix_permissions(output_dir), sys.exit(1).
FailureExit ==
    /\ pc = "except_fix_permissions"
    /\ CallFixPermissions
    /\ Exit(1)
    /\ error' = error
    /\ UNCHANGED <<envVars, procVars, gitVars, sessVars, clockVars, artVars,
                   manVars, pf, cfgCall>>

(***************************************************************************)
(* Spec: a whole run.                                                      *)
(***************************************************************************)
Preflight ==
    \/ MakeOutputDirs
    \/ LoadSpec
    \/ LoadSystemPrompt
    \/ LoadUserPrompt
    \/ GitConfig
    \/ CheckGit
    \/ GitInit
    \/ BaselineAdd
    \/ BaselineCommit

Session ==
    \/ Connect
    \/ OpenLog
    \/ Query
    \/ \E msg \in Messages : Receive(msg)
    \/ StreamEnd
    \/ StreamRaise
    \/ FinishStream

Artifacts ==
    \/ StageChanges
    \/ GenerateDiff
    \/ WriteManifest
    \/ WriteDiff
    \/ ResolveSummary
    \/ WriteSummary
    \/ FinishRun
    \/ HandleFailure
    \/ FailureExit

Next == Preflight \/ Session \/ Artifacts

Spec == Init /\ [][Next]_vars

(***************************************************************************)
(* TimedSpec: the session and what follows it, with the wall clock.  It    *)
(* starts where run_adapter is about to connect, in a workspace that has   *)
(* its baseline, with every input present and the host identity set.       *)
(***************************************************************************)
TimedInit ==
    /\ pc = "connect"
    /\ exitCode = -1
    /\ inputs = InputFiles
    /\ HOST_UID = EnvStr(<<"7">>)
    /\ HOST_GID = EnvStr(<<"7">>)
    /\ cwd = "workspace"
    /\ outDirs = {"output", "output/evidence"}
    /\ gitDir = TRUE
    /\ commits = 1
    /\ gitRan = <<"config">>
    /\ Locals
    /\ pf = NoCall

TimedNext == Tick \/ Session \/ Artifacts

TimedSpec == TimedInit /\ [][TimedNext]_vars

(***************************************************************************)
(* PermSpec: the two fix_permissions functions, called once each on a      *)
(* complete output tree, for every value of HOST_UID and HOST_GID, every   *)
(* uid / gid argument and every entry whose chown may raise.               *)
(***************************************************************************)
HarnessTree ==
    Tree({"output", "output/evidence"},
         [NoManifest EXCEPT !.keys = {"status"}],
         File(""), [exists |-> TRUE, text |-> NoText],
         [exists |-> TRUE, lines |-> <<>>])

\* The uid and gid arguments of PermissionFixer.fix_permissions: None or an
\* integer.
FixerArgs == {Unset, EnvStr(<<"7">>)}

PermInit ==
    /\ pc = "harness"
    /\ exitCode = -1
    /\ inputs = InputFiles
    /\ HOST_UID \in EnvValues
    /\ HOST_GID \in EnvValues
    /\ cwd = "start"
    /\ outDirs = {"output", "output/evidence"}
    /\ gitDir = FALSE
    /\ commits = 0
    /\ gitRan = <<>>
    /\ Locals
    /\ pf = NoCall

\* adapter.fix_permissions(directory)
CallAdapterFixPermissions ==
    /\ pf.fn = "none"
    /\ \E failAt \in 0..Len(HarnessTree) :
         LET r == fix_permissions(HOST_UID, HOST_GID, HarnessTree, failAt)
         IN  pf' = [fn |-> "adapter.fix_permissions", uid |-> Unset,
                    gid |-> Unset, failAt |-> failAt,
                    chowned |-> r.chowned, raised |-> r.raised]
    /\ UNCHANGED <<pc, exitCode, error, envVars, procVars, gitVars, sessVars,
                   clockVars, artVars, manVars, permVars, cfgCall>>

\* permission_fixer.fix_permissions(directory, uid, gid)
CallPermissionFixer ==
    /\ pf.fn = "none"
    /\ \E uid_arg \in FixerArgs, gid_arg \in FixerArgs,
          failAt \in 0..Len(HarnessTree) :
         LET r == PermissionFixer_fix_permissions(
                      uid_arg, gid_arg, HOST_UID, HOST_GID, HarnessTree, failAt)
         IN  pf' = [fn |-> "PermissionFixer.fix_permissions", uid |-> uid_arg,
                    gid |-> gid_arg, failAt |-> failAt,
                    chowned |-> r.chowned, raised |-> r.raised]
    /\ UNCHANGED <<pc, exitCode, error, envVars, procVars, gitVars, sessVars,
                   clockVars, artVars, manVars, permVars, cfgCall>>

PermNext == CallAdapterFixPermissions \/ CallPermissionFixer

PermSpec == PermInit /\ [][PermNext]_vars

(***************************************************************************)
(* Properties.                                                             *)
(***************************************************************************)
Exited == pc = "exit"

Range(f) == {f[i] : i \in DOMAIN f}

\* HOST_UID and HOST_GID are both set to integers.
IdentityConfigured ==
    /\ Truthy(HOST_UID) /\ PyInt(HOST_UID.val).ok
    /\ Truthy(HOST_GID) /\ PyInt(HOST_GID.val).ok

\* The stream ended with a ResultMessage.
EndedWithResult == terminal \in {"result_ok", "result_error"}

\* The session failed with an error: connect, query or the stream raised.
SessionErrors == {"connect failed", "query failed", "stream failed"}

\* manifest.json, diff.patch and summary.md were all written by this run.
ArtifactsWritten == {"manifest.json", "diff.patch", "summary.md"} \subseteq written

\* C1: on every exit path taken after the output directory has been
\* created, a manifest.json written by this run exists when the process
\* exits.
C1_ManifestAtEveryExit ==
    (Exited /\ "output" \in outDirs) =>
        (manifest_json.keys # {} /\ "manifest.json" \in written)

\* C2: no run writes manifest.json twice.
C2_ManifestWrittenOnce == manifestWrites <= 1

\* C3: the manifest the artifact generator writes has outcome "success" if
\* and only if the stream was terminated by a ResultMessage whose is_error
\* is false; a stream exhausted without a ResultMessage does not yield
\* "success".
C3_SuccessIffCleanResult ==
    "duration" \in manifest_json.keys =>
        (manifest_json.outcome = "success" <=> terminal = "result_ok")

\* C4: when the session fails with an error, the run still stages the
\* workspace changes, computes the cached diff and writes diff.patch and
\* summary.md beside the failure manifest.
C4_ArtifactsAfterSessionError ==
    (Exited /\ error \in SessionErrors /\ manifest_json.outcome = "failure") =>
        /\ "add (staging)" \in Range(gitRan)
        /\ "diff" \in Range(gitRan)
        /\ {"diff.patch", "summary.md"} \subseteq written

\* C5: a run whose stream ends with a ResultMessage and whose artifacts are
\* all written exits with status 0, whether is_error is false or true.
C5_CompletedRunExitsZero ==
    (Exited /\ EndedWithResult /\ ArtifactsWritten) => exitCode = 0

\* C5 witness: a run whose ResultMessage reported an error has written its
\* artifacts, recorded "failure" in the manifest and exited with status 0.
C5_Witness ==
    /\ Exited
    /\ terminal = "result_error"
    /\ ArtifactsWritten
    /\ manifest_json.outcome = "failure"
    /\ exitCode = 0

\* No line of the evidence log holds an AssistantMessage with text.
NoAssistantTextLogged ==
    \A i \in DOMAIN execution_log.lines :
        LET l == execution_log.lines[i]
        IN  ~(l.tag = "Message" /\ l.msg.type = "AssistantMessage"
              /\ BlocksText(l.msg.content) # "")

\* C6: after the query, the adapter never waits for the next message longer
\* than the idle-timeout window: the session is aborted and the run ends in
\* failure; with zero events received the evidence log then holds no
\* assistant text.
C6_IdleTimeoutAborts ==
    /\ pc = "recv" => idle <= IdleTimeoutDefault
    /\ (Exited /\ idled) => manifest_json.outcome = "failure"
    /\ (Exited /\ idled /\ Len(execution_log.lines) = 0) => NoAssistantTextLogged

\* C7: a stream that keeps delivering messages, so that no wait lasts a full
\* idle window, is still cut off once the time elapsed since the start
\* exceeds the total timeout: the adapter is not found waiting after that.
C7_TotalTimeoutAborts ==
    (pc = "recv" /\ ~idled) => now - start_time <= TotalTimeoutDefault

\* C8: whenever HOST_UID and HOST_GID are configured, every exit path has
\* called fix_permissions on the output directory, and no file under the
\* output directory is written after that call.
C8_PermissionsFixedAtEveryExit ==
    /\ (Exited /\ IdentityConfigured /\ "output" \in outDirs) => permCalls >= 1
    /\ ~wroteAfterPerm

\* An identity value that is absent, empty or not an integer.
Unusable(e) == ~Truthy(e) \/ ~PyInt(e.val).ok

\* C9: when HOST_UID or HOST_GID is absent, empty or not an integer, a call
\* of either fix_permissions function that takes the identity from the
\* environment changes no ownership and raises no exception.
C9_NoOpWithoutIdentity ==
    (/\ pf.fn # "none"
     /\ ~pf.uid.set /\ ~pf.gid.set
     /\ (Unusable(HOST_UID) \/ Unusable(HOST_GID)))
        => (pf.chowned = <<>> /\ ~pf.raised)

\* C10: when the agent session is started (client.connect), the workspace
\* repository has at least one commit, whatever the workspace was at start.
C10_BaselineBeforeSession == pc = "connect" => commits >= 1

(***************************************************************************)
(* BaselineSpec: the preflight of run_adapter, run again on the workspace  *)
(* the previous run left behind.                                           *)
(***************************************************************************)
\* A further run of the adapter on the same workspace: the baseline step
\* (98-113) starts over with the repository, the ignore file and the
\* history of git commands as the previous run left them.
RerunBaseline ==
    /\ pc = "connect"
    /\ runs < MaxBaselineRuns
    /\ runs' = runs + 1
    /\ pc' = "chdir"
    /\ UNCHANGED <<exitCode, error, inputs, HOST_UID, HOST_GID, procVars,
                   gitVars, sessVars, clockVars, artVars, manVars, permVars,
                   pf, cfgCall>>

BaselineNext ==
    \/ Preflight
    \/ RerunBaseline

BaselineSpec == Init /\ [][BaselineNext]_vars

Count(seq, x) == Cardinality({i \in DOMAIN seq : seq[i] = x})

\* C11: a baseline step that finds version-control metadata runs no init,
\* no add, no commit and leaves the ignore file alone; so however many
\* times the step runs on a workspace that started without metadata, there
\* is one init, one append to the ignore file and one baseline commit.
C11_BaselineIdempotent ==
    /\ Count(gitRan, "init") <= 1
    /\ Count(gitRan, "add (baseline)") <= 1
    /\ Count(gitRan, "commit") <= 1
    /\ gitignore <= 1
    /\ (pc = "connect" /\ "init" \notin Range(gitRan)) =>
          /\ gitignore = 0
          /\ Count(gitRan, "add (baseline)") = 0
          /\ Count(gitRan, "commit") = 0
    /\ (pc = "connect" /\ "init" \in Range(gitRan)) =>
          commits = 1 /\ gitignore = 1

C11_Witness ==
    /\ pc = "connect"
    /\ runs = 2
    /\ Count(gitRan, "config") = 2
    /\ "init" \in Range(gitRan)
    /\ commits = 1

\* C12: when spec.yaml, prompts/system.md or prompts/user.md is missing the
\* run never gets past the input checks: the process has not changed into
\* the workspace, has run no git command, has not connected the agent and
\* has written no diff.patch; when it has exited, its status is not zero.
C12_MissingInputStopsBeforeWorkspace ==
    inputs # InputFiles =>
        /\ pc \in {"start", "load_spec", "load_system", "load_user", "exit"}
        /\ cwd = "start"
        /\ gitRan = <<>>
        /\ gitignore = 0
        /\ ~staged
        /\ client = "new"
        /\ ~execution_log.exists
        /\ "diff.patch" \notin written
        /\ ~diff_patch.exists
        /\ Exited => exitCode # 0

(***************************************************************************)
(* ConfigSpec: a harness that reads each integer setting of HolonConfig    *)
(* under every value of its environment variable.                          *)
(***************************************************************************)
ConfigInit ==
    /\ Locals
    /\ pc = "config"
    /\ exitCode = -1
    /\ inputs = InputFiles
    /\ HOST_UID = Unset
    /\ HOST_GID = Unset
    /\ cwd = "start"
    /\ outDirs = {}
    /\ gitDir = FALSE
    /\ commits = 0
    /\ dirty = FALSE
    /\ gitRan = <<>>
    /\ pf = NoCall

\* One getter is called with the environment variable holding `value`.
ReadIntSetting ==
    /\ pc = "config"
    /\ \E setting \in IntSettings, value \in IntEnvValues :
         LET r == int_env(value, setting.default)
         IN  cfgCall' = [name |-> setting.name, value |-> value,
                         raised |-> r.raised, result |-> r.result]
    /\ UNCHANGED <<pc, exitCode, error, envVars, procVars, gitVars, sessVars,
                   clockVars, artVars, manVars, permVars, pf>>

ConfigNext == ReadIntSetting

ConfigSpec == ConfigInit /\ [][ConfigNext]_vars

\* The default the specification gives for each integer setting.
StatedDefault(name) ==
    CASE name = "HOLON_QUERY_TIMEOUT_SECONDS" -> IntValue(300)
      [] name = "HOLON_HEARTBEAT_SECONDS" -> IntValue(60)
      [] name = "HOLON_RESPONSE_IDLE_TIMEOUT_SECONDS" -> IntValue(1800)
      [] name = "HOLON_RESPONSE_TOTAL_TIMEOUT_SECONDS" -> IntValue(7200)
      [] OTHER -> NoneValue

\* C13: reading an integer setting never raises; the result is the parsed
\* integer when the environment value parses as one and otherwise the
\* default: 300, 60, 1800, 7200, and None for HOST_UID and HOST_GID.
C13_IntSettingsNeverRaise ==
    cfgCall.name # "" =>
        /\ ~cfgCall.raised
        /\ IF cfgCall.value.set /\ PyInt(cfgCall.value.val).ok
           THEN cfgCall.result = IntValue(PyInt(cfgCall.value.val).n)
           ELSE cfgCall.result = StatedDefault(cfgCall.name)

C13_Witness ==
    /\ cfgCall.name = "HOLON_HEARTBEAT_SECONDS"
    /\ cfgCall.value = EnvStr(<<"7", "a">>)
    /\ cfgCall.result = IntValue(60)
    /\ ~cfgCall.raised

\* C14: when both ids are resolved and chown fails on one entry of the
\* output tree, every other entry of the tree is still re-owned, in both
\* fix_permissions functions.
C14_ChownFailureDoesNotAbort ==
    (/\ pf.fn # "none"
     /\ pf.uid.set \/ ~Unusable(HOST_UID)
     /\ pf.gid.set \/ ~Unusable(HOST_GID)
     /\ pf.failAt \in 1..Len(HarnessTree))
        => Range(pf.chowned) = Range(HarnessTree) \ {HarnessTree[pf.failAt]}

\* The messages of a stream that come before its first ResultMessage.
BeforeResult(msgs) ==
    LET at == {i \in DOMAIN msgs : msgs[i].type = "ResultMessage"}
    IN  IF at = {} THEN msgs
        ELSE SubSeq(msgs, 1, (CHOOSE i \in at : \A j \in at : i <= j) - 1)

RECURSIVE AssistantBlocks(_)
\* All content blocks of the AssistantMessages of msgs, in order.
AssistantBlocks(msgs) ==
    IF msgs = <<>> THEN <<>>
    ELSE (IF Head(msgs).type = "AssistantMessage" THEN Head(msgs).content ELSE <<>>)
         \o AssistantBlocks(Tail(msgs))

IsTextBlock(b) == b.type = "TextBlock"

RECURSIVE Concat(_)
Concat(blocks) ==
    IF blocks = <<>> THEN "" ELSE Head(blocks).text \o Concat(Tail(blocks))

IsMessageLine(l) == l.tag = "Message"

\* The messages the log holds, in the order of its lines.
LoggedMessages ==
    LET ls == SelectSeq(execution_log.lines, IsMessageLine)
    IN  [i \in 1..Len(ls) |-> ls[i].msg]

\* C15: the accumulated output is the concatenation, in arrival order, of
\* the text blocks of the assistant messages that arrived before the first
\* ResultMessage, other blocks and messages adding nothing; a ResultMessage
\* is the last message consumed and the last one logged; and the result
\* of a finished stream is that output.
C15_OutputIsTextBeforeResult ==
    /\ final_output =
          Concat(SelectSeq(AssistantBlocks(BeforeResult(arrived)), IsTextBlock))
    /\ \A i \in DOMAIN arrived :
          arrived[i].type = "ResultMessage" => i = Len(arrived)
    /\ \A i \in DOMAIN LoggedMessages :
          LoggedMessages[i].type = "ResultMessage" => i = Len(LoggedMessages)
    /\ terminal \in {"result_ok", "result_error"} =>
          /\ arrived # <<>>
          /\ arrived[Len(arrived)].type = "ResultMessage"
          /\ pc # "recv"
    /\ (pc = "git_add" \/ "add (staging)" \in Range(gitRan)) =>
          result = final_output

C15_Witness ==
    /\ Exited
    /\ terminal = "result_ok"
    /\ Len(arrived) = 4
    /\ UsesTool(arrived[2])
    /\ arrived[3].type = "SystemMessage"
    /\ result = "ab"

FatalGitCommands == {"init", "add (baseline)", "commit"}

\* C17: once git init, the baseline git add or the baseline git commit has
\* failed, the process has exited with a non-zero status and the agent was
\* never connected or queried; a failed git config does not stop the run by
\* itself: a run with all inputs that exits before connecting, with no
\* exception caught, had one of the three baseline commands fail.
C17_BaselineFailureIsFatal ==
    /\ gitFailed \cap FatalGitCommands # {} =>
          /\ Exited
          /\ exitCode # 0
          /\ client = "new"
          /\ ~execution_log.exists
          /\ arrived = <<>>
    /\ (Exited /\ inputs = InputFiles /\ client = "new" /\ error = "") =>
          gitFailed \cap FatalGitCommands # {}

C17_Witness ==
    /\ Exited
    /\ exitCode = 1
    /\ gitFailed = {"config", "commit"}
    /\ gitRan = <<"config", "init", "add (baseline)", "commit">>
    /\ client = "new"

\* C18: when the post-session git add -A or git diff --cached has exited
\* non-zero, the run does not end with a manifest of outcome "success"
\* beside an empty diff.patch.  Checked where it matters most: the agent
\* changed the workspace and no step of the run raised.
C18_GitExitCodesDetermineSuccess ==
    (/\ Exited
     /\ error = ""
     /\ dirty
     /\ gitFailed \cap {"add (staging)", "diff"} # {}) =>
        ~(/\ manifest_json.outcome = "success"
          /\ diff_patch.exists
          /\ diff_patch.content = "")

\* The errors raised by a step of artifact generation (196-247).
ArtifactErrors ==
    {"git add failed", "git diff failed", "cannot write manifest.json",
     "cannot write diff.patch", "cannot read summary.md",
     "cannot write summary.md"}

\* C19: when a step of artifact generation has raised, the process exits
\* with a manifest.json that has outcome "failure" and holds the error
\* text.
C19_ArtifactErrorLeavesFailureManifest ==
    (Exited /\ error \in ArtifactErrors) =>
        /\ manifest_json.keys # {}
        /\ manifest_json.outcome = "failure"
        /\ manifest_json.error = error

\* C20: a summary.md that existed when artifact generation looked for it
\* has the same content when the process exits; when none existed, the
\* summary written is the synthesized one, and it states "Success" exactly
\* when the manifest outcome is "success" and "Failure" otherwise.
C20_AgentSummaryKeptVerbatim ==
    /\ (Exited /\ summary_before.exists) => summary_md = summary_before
    /\ (Exited /\ pc # "summary" /\ ~summary_before.exists
           /\ "summary.md" \in written) =>
          /\ summary_md.text.by = "adapter"
          /\ summary_md.text.outcome \in {"Success", "Failure"}
          /\ summary_md.text.outcome = "Success"
                <=> manifest_json.outcome = "success"

\* C21: every manifest the run writes, on the success path and in the
\* failure handler, has status "completed", an outcome that is "success"
\* or "failure", and the artifact list naming diff.patch, summary.md and
\* evidence/.
C21_EveryManifestListsArtifacts ==
    manifest_json.keys # {} =>
        /\ "status" \in manifest_json.keys
        /\ manifest_json.status = "completed"
        /\ "outcome" \in manifest_json.keys
        /\ manifest_json.outcome \in {"success", "failure"}
        /\ "artifacts" \in manifest_json.keys
        /\ manifest_json.artifacts = <<"diff.patch", "summary.md", "evidence/">>

\* C22: when the process has exited and the manifest.json this run wrote
\* records outcome "success", diff.patch and summary.md were both written
\* by this run.
C22_SuccessManifestHasItsArtifacts ==
    (/\ Exited
     /\ "manifest.json" \in written
     /\ manifest_json.outcome = "success") =>
        /\ {"diff.patch", "summary.md"} \subseteq written
        /\ diff_patch.exists
        /\ summary_md.exists

\* The manifest left behind is the one of the normal path: it has a
\* duration and no error field.
NormalPathManifest ==
    /\ "duration" \in manifest_json.keys
    /\ "error" \notin manifest_json.keys

\* C23: the exit status agrees with the manifest left behind: the status
\* is 0 exactly when that manifest is the one of the normal path, and it
\* is not 0 when the manifest has an error field or none was written.
C23_ExitStatusAgreesWithManifest ==
    Exited =>
        /\ exitCode = 0 <=> NormalPathManifest
        /\ ("error" \in manifest_json.keys \/ manifest_json.keys = {}) =>
              exitCode # 0

C12_Witness ==
    /\ Exited
    /\ exitCode = 1
    /\ inputs = InputFiles \ {"prompts/user.md"}
    /\ outDirs # {}
    /\ cwd = "start"

====
